---- MODULE Spec2Model ----
(***************************************************************************)
(* Model of the NOVA-SmartRAG backend: the upload routes of pdf_routes.py  *)
(* and csv_routes.py, the fresh-URL retrieval routes get_pdf / get_csv,    *)
(* the chat-session routes of chat_routes.py and get_current_user of       *)
(* clerk_auth.py.                                                          *)
(*                                                                         *)
(* A Python str is a sequence of atoms.  An atom is a TLA+ string holding  *)
(* either one character ("/", "?", "%", ".", " ", a letter, a digit) or an *)
(* opaque run of characters that holds none of "/", "?", "%", "." and " "  *)
(* (the text of a uuid, a host name, the word "pdfs").  None and the empty *)
(* str are both the empty sequence: every test the code makes on them is a *)
(* truthiness test.                                                        *)
(***************************************************************************)
EXTENDS Integers, Naturals, Sequences, FiniteSets, TLC

VARIABLES
    users,          \* table "users": set of rows
    pdf_files,      \* table "pdf_files": set of rows
    csv_datasets,   \* table "csv_datasets": set of rows
    chat_sessions,  \* table "chat_sessions": set of rows
    chat_messages,  \* table "chat_messages": set of rows
    storage,        \* the bucket: object path -> bytes
    reqs,           \* the requests in flight or answered: slot -> locals
    ever_cached,    \* every value a public_url column has ever held
    url_path,       \* resolver round trip: the path given to the signer
    url_pc,         \* resolver round trip: position
    url_signed,     \* resolver round trip: the signed URL issued
    url_out,        \* resolver round trip: the path get_pdf extracted
    csv_file,       \* CSV validation: the file offered
    csv_pc,         \* CSV validation: position
    csv_out         \* CSV validation: the status raised, 0 for none

vars == <<users, pdf_files, csv_datasets, chat_sessions, chat_messages,
          storage, reqs, ever_cached,
          url_path, url_pc, url_signed, url_out, csv_file, csv_pc, csv_out>>

\* the variables of the checks of the pure functions
fn_vars == <<url_path, url_pc, url_signed, url_out, csv_file, csv_pc, csv_out>>

None == << >>

----------------------------------------------------------------------------
(* Python str operations used by the routes *)

\* s[i:] starts with pre
StartsAt(s, pre, i) ==
    /\ i + Len(pre) - 1 <= Len(s)
    /\ \A k \in 1..Len(pre) : s[i + k - 1] = pre[k]

\* index of the first occurrence of sep in s, 0 when there is none
Find(s, sep) ==
    IF \E i \in 1..Len(s) : StartsAt(s, sep, i)
    THEN CHOOSE i \in 1..Len(s) :
            /\ StartsAt(s, sep, i)
            /\ \A j \in 1..(i - 1) : ~StartsAt(s, sep, j)
    ELSE 0

\* sep in s
Contains(s, sep) == Find(s, sep) # 0

\* s.split(sep): the list of the parts of s between the occurrences of sep
RECURSIVE Split(_, _)
Split(s, sep) ==
    LET i == Find(s, sep) IN
    IF i = 0 THEN <<s>>
    ELSE <<SubSeq(s, 1, i - 1)>> \o Split(SubSeq(s, i + Len(sep), Len(s)), sep)

\* sep.join(parts)
RECURSIVE Join(_, _)
Join(parts, sep) ==
    IF Len(parts) = 0 THEN << >>
    ELSE IF Len(parts) = 1 THEN parts[1]
    ELSE parts[1] \o sep \o Join(Tail(parts), sep)

\* s.endswith(suf)
EndsWith(s, suf) ==
    /\ Len(suf) <= Len(s)
    /\ SubSeq(s, Len(s) - Len(suf) + 1, Len(s)) = suf

LowerChar(c) ==
    CASE c = "C" -> "c"
      [] c = "S" -> "s"
      [] c = "V" -> "v"
      [] c = "D" -> "d"
      [] c = "T" -> "t"
      [] c = "X" -> "x"
      [] OTHER -> c

\* s.lower()
Lower(s) == [i \in 1..Len(s) |-> LowerChar(s[i])]

HexPairs == { <<"2", "0">>, <<"2", "5">>, <<"3", "F">>, <<"2", "F">> }

HexChar(h) ==
    CASE h = <<"2", "0">> -> " "
      [] h = <<"2", "5">> -> "%"
      [] h = <<"3", "F">> -> "?"
      [] h = <<"2", "F">> -> "/"

\* urllib.parse.unquote(s): every %XX escape becomes its character, a "%"
\* that two hex digits do not follow is kept
RECURSIVE Unquote(_)
Unquote(s) ==
    IF Len(s) = 0 THEN << >>
    ELSE IF s[1] = "%" /\ Len(s) >= 3 /\ <<s[2], s[3]>> \in HexPairs
         THEN <<HexChar(<<s[2], s[3]>>)>> \o Unquote(SubSeq(s, 4, Len(s)))
         ELSE <<s[1]>> \o Unquote(Tail(s))

\* the percent-encoding the bucket applies to an object path inside a URL:
\* "/" is kept, the reserved characters are escaped
QuoteChar(c) ==
    CASE c = " " -> <<"%", "2", "0">>
      [] c = "%" -> <<"%", "2", "5">>
      [] c = "?" -> <<"%", "3", "F">>
      [] OTHER -> <<c>>

RECURSIVE Quote(_)
Quote(s) ==
    IF Len(s) = 0 THEN << >> ELSE QuoteChar(s[1]) \o Quote(Tail(s))

----------------------------------------------------------------------------
(* The bucket's URLs *)

BaseUrl == <<"https:", "/", "/", "host", "/", "storage", "/", "v1">>
SignMarker == <<"/", "object", "/", "sign", "/">>
PublicMarker == <<"/", "storage", "/", "v1", "/", "object", "/", "public", "/">>
BUCKET == <<"bucket">>

\* the token of the n-th URL signed for request s: the bucket never issues
\* the same token twice
TokenAtom(s, n) == "t" \o ToString(s) \o "-" \o ToString(n)

\* the value of 'signedURL' for path, carrying token
SignedUrl(path, token) ==
    BaseUrl \o SignMarker \o Quote(path) \o <<"?", "token=", token>>

\* the public URL of path (the older schema stored these)
PublicUrl(path) ==
    <<"https:", "/", "/", "host">> \o PublicMarker \o BUCKET \o <<"/">> \o Quote(path)

----------------------------------------------------------------------------
(* get_pdf, Method 2: the path extracted from the record's public_url *)

ExtractFromSigned(public_url) ==
    LET url_parts == Split(public_url, SignMarker) IN
    IF Len(url_parts) > 1
    THEN Unquote(Split(url_parts[2], <<"?">>)[1])
    ELSE None

ExtractFromPublic(public_url) ==
    LET url_parts == Split(public_url, PublicMarker) IN
    IF Len(url_parts) > 1
    THEN LET path_parts == Split(url_parts[2], <<"/">>) IN
         IF Len(path_parts) > 1
         THEN Unquote(Join(Tail(path_parts), <<"/">>))
         ELSE None
    ELSE None

ExtractPath(public_url) ==
    IF Contains(public_url, SignMarker) THEN ExtractFromSigned(public_url)
    ELSE IF Contains(public_url, PublicMarker) THEN ExtractFromPublic(public_url)
    ELSE None

----------------------------------------------------------------------------
(* Bounds and input sets *)

MaxUploads == 2     \* upload requests started, in flight or answered
MaxGets == 2        \* retrieval requests started, in flight or answered
MaxChats == 2       \* chat-session requests started, in flight or answered
MaxMessages == 2    \* messages the chat interaction adds to one session
MaxReads == 2       \* requests by record id started, in flight or answered
MaxCalls == 2       \* upload and retrieval requests run side by side

PdfMaxBytes == 200 * 1024 * 1024
CsvMaxBytes == 50 * 1024 * 1024

\* identity-provider ids sent in the user-id header; clerk_x is unknown to
\* the identity provider
ClerkIds == {"clerk_a", "clerk_b", "clerk_x"}

\* the primary email the identity provider reports, None when the fetch fails
EmailOf(clerk) ==
    CASE clerk = "clerk_a" -> <<"a@x">>
      [] clerk = "clerk_b" -> <<"b@x">>
      [] OTHER -> None

DotCsv == <<".", "c", "s", "v">>
DotPdf == <<".", "p", "d", "f">>

Statuses == {"pending", "processing", "completed", "failed"}

\* a generator whose values repeat from one request to the next
uuid4_Repeating(s, n) == "uuid" \o "-" \o ToString(n)

\* str(uuid.uuid4()) for the n-th draw of request s: a value no other draw
\* returns
uuid4(s, n) == "uuid" \o ToString(s) \o "-" \o ToString(n)

----------------------------------------------------------------------------
(* Rows *)

UserRow(id, email, clerk) == [id |-> id, email |-> email, clerk_user_id |-> clerk]

SourceRow(id, user_id, filename, supabase_path, public_url, status) ==
    [id |-> id, user_id |-> user_id, filename |-> filename,
     supabase_path |-> supabase_path, embedding_status |-> status,
     public_url |-> public_url]

NoRow == SourceRow("", "", None, None, None, "")

SessionRow(id, user_id, title, feature_type, source_id) ==
    [id |-> id, user_id |-> user_id, title |-> title,
     feature_type |-> feature_type, source_id |-> source_id]

NoSession == SessionRow("", "", "", "", "")

MessageRow(session_id, n) == [session_id |-> session_id, n |-> n]

\* the row upload_pdf inserts
NewPdfRow(pdf_id, user_id, filename, supabase_path, signed_url) ==
    SourceRow(pdf_id, user_id, filename, supabase_path, signed_url, "pending")

\* the row upload_csv inserts: it sets no public_url
NewCsvRow(csv_id, user_id, filename, supabase_path) ==
    SourceRow(csv_id, user_id, filename, supabase_path, None, "pending")

\* f"pdfs/{current_user['id']}/{filename}" with filename = f"{uuid.uuid4()}.pdf"
PdfUploadPath(user_id, name) == <<"pdfs", "/", user_id, "/", name>> \o DotPdf
CsvUploadPath(user_id, name) == <<"csvs", "/", user_id, "/", name>> \o DotCsv

\* potential_paths of get_pdf, in the order they are tried
PotentialPaths(user_id, filename) ==
    << <<"pdfs", "/", user_id, "/">> \o filename,
       <<"pdfs", "/">> \o filename,
       <<user_id, "/">> \o filename >>

----------------------------------------------------------------------------
(* Validation of the uploads *)

\* upload_pdf without its size check
PdfValidation_NoSizeCheck(content_type, size) ==
    IF content_type # "application/pdf" THEN 400 ELSE 0

\* upload_pdf: 0 when the file passes, else the status raised
PdfValidation(content_type, size) ==
    IF content_type # "application/pdf" THEN 400
    ELSE IF size > PdfMaxBytes THEN 400
    ELSE 0

allowed_types == {"text/csv", "application/csv", "application/vnd.ms-excel",
                  "text/plain", "application/octet-stream"}

\* upload_csv rejecting every content type outside allowed_types
CsvValidation_ByContentType(filename, content_type, size) ==
    IF filename = None \/ ~EndsWith(Lower(filename), DotCsv) THEN 400
    ELSE IF content_type \notin allowed_types THEN 400
    ELSE IF size > CsvMaxBytes THEN 400
    ELSE 0

\* upload_csv: 0 when the file passes, else the status raised
CsvValidation(filename, content_type, size) ==
    IF filename = None \/ ~EndsWith(Lower(filename), DotCsv) THEN 400
    ELSE IF content_type \notin allowed_types /\ ~EndsWith(Lower(filename), DotCsv)
         THEN 400
    ELSE IF size > CsvMaxBytes THEN 400
    ELSE 0

----------------------------------------------------------------------------
(* Requests.  Each request runs its handler one call to the database, the  *)
(* bucket or a collaborator at a time; the locals of the handler live in   *)
(* reqs[s] and are dropped when the response is sent.                      *)

Slots == DOMAIN reqs

IdleReq ==
    [op |-> "none", pc |-> "idle", clerk |-> "", uid |-> "", id |-> "",
     filename |-> None,
     path |-> None, url |-> None, data |-> NoRow, i |-> 0,
     draws |-> 0,       \* uuid4() calls made by the request
     signs |-> 0,       \* signed URLs the bucket issued to the request
     source_id |-> "", status |-> 0, detail |-> "", body |-> NoRow,
     session |-> NoSession, count |-> 0,
     \* history of the request, kept for the properties
     invalid |-> FALSE, found |-> FALSE, wrote |-> FALSE,
     cached |-> None, minted |-> None, novel |-> TRUE, backfilled |-> None,
     foreign |-> FALSE, absent |-> FALSE, late |-> FALSE,
     method |-> 0,      \* which of Methods 1-3 of get_pdf resolved the path
     resolved |-> None, \* the path that Method 2 or 3 resolved
     after |-> FALSE,   \* the row was read after a write-back stored a path
     embeds |-> 0,      \* calls of the embedding collaborator by the request
     raised |-> FALSE,  \* the embedding collaborator raised
     rerun |-> FALSE,   \* the delete follows one that stopped half-way
     tried |-> 0]       \* potential paths that Method 3 asked the bucket about

\* the response is sent: status, detail of the HTTPException, returned data
Respond(r, status, detail, body) ==
    [r EXCEPT !.pc = "done", !.status = status, !.detail = detail,
              !.body = body, !.filename = None,
              !.path = None, !.url = None, !.data = NoRow, !.i = 0,
              !.draws = 0, !.signs = 0]

\* the handlers using the identity-provider id of the row
current_user_id_External(user_row) == user_row.clerk_user_id

\* current_user["id"]: the id the handlers use for the requester
current_user_id(user_row) == user_row.id

\* the first statement of the handler body, after Depends(get_current_user)
Entry(op) ==
    CASE op \in {"upload_pdf", "upload_csv"} -> "validate"
      [] op \in {"get_pdf", "get_csv"} -> "select"
      [] op = "create_session" -> "cs_check"
      [] op = "get_session" -> "gs_select"
      [] op = "delete_session" -> "ds_select"
      [] OTHER -> "gm_select"

\* what the claim of section 4.3 calls a file that validation rejects
Invalid(op, filename, content_type, size) ==
    IF op = "upload_pdf"
    THEN content_type # "application/pdf" \/ size > 200 * 1024 * 1024
    ELSE ~EndsWith(Lower(filename), DotCsv) \/ size > 50 * 1024 * 1024

\* the files the clients send
UploadFilenames == { <<"data">> \o DotCsv, <<"data", ".", "t", "x", "t">> }
UploadTypes == {"application/pdf", "image/png"}
UploadSizes == {1024, CsvMaxBytes + 1, PdfMaxBytes + 1}

FirstIdle(s) ==
    /\ reqs[s].pc = "idle"
    /\ \A k \in Slots : k < s => reqs[k].pc # "idle"

----------------------------------------------------------------------------
(* get_current_user *)

\* A request for op arrives with clerk in its user-id header and
\* get_current_user runs up to its read of the users table: the identity
\* provider is asked, then the users table is read by email.
AuthSelect(s, op, clerk) ==
    LET r == [IdleReq EXCEPT !.op = op, !.clerk = clerk]
        primary_email == EmailOf(clerk)
        existing_user == {u \in users : u.email = primary_email}
    IN
    /\ FirstIdle(s)
    /\ IF primary_email = None
       THEN reqs' = [reqs EXCEPT ![s] = Respond(r, 401, "Authentication failed", NoRow)]
       ELSE IF existing_user # {}
       THEN \E u \in existing_user :
              reqs' = [reqs EXCEPT ![s] = [r EXCEPT !.uid = current_user_id(u),
                                                    !.pc = Entry(op)]]
       ELSE reqs' = [reqs EXCEPT ![s] = [r EXCEPT !.pc = "auth_insert"]]
    /\ UNCHANGED <<users, pdf_files, csv_datasets, chat_sessions, chat_messages,
                   storage, ever_cached,
                   fn_vars>>

\* a client sends POST /upload-pdf or POST /upload-csv
StartUpload(s) ==
    \E op \in {"upload_pdf", "upload_csv"}, clerk \in ClerkIds : AuthSelect(s, op, clerk)

\* a client sends GET /api/pdf/{id} or GET /api/csv/{id}
StartGet(s) ==
    \E op \in {"get_pdf", "get_csv"}, clerk \in ClerkIds : AuthSelect(s, op, clerk)

\* no row had the email when the table was read: a users row is inserted
\* under a new uuid, without a second look at the table; an insert that
\* raises is answered 401
AuthInsert(s) ==
    LET r == reqs[s]
        new_user == UserRow(uuid4(s, r.draws + 1), EmailOf(r.clerk), r.clerk)
    IN
    /\ r.pc = "auth_insert"
    /\ \/ /\ users' = users \cup {new_user}
          /\ reqs' = [reqs EXCEPT ![s] = [r EXCEPT !.uid = current_user_id(new_user),
                                                   !.draws = r.draws + 1,
                                                   !.pc = Entry(r.op)]]
       \/ /\ UNCHANGED users
          /\ reqs' = [reqs EXCEPT ![s] =
                Respond(r, 401, "Authentication failed", NoRow)]
    /\ UNCHANGED <<pdf_files, csv_datasets, chat_sessions, chat_messages,
                   storage, ever_cached,
                   fn_vars>>

----------------------------------------------------------------------------
(* The bucket *)

\* storage.from_(BUCKET).upload(path, contents, {"x-upsert": "false"}):
\* the bucket after the call; an object already at path makes the call raise
BucketUpload(path, contents) ==
    [p \in DOMAIN storage \cup {path} |-> IF p = path THEN contents ELSE storage[p]]

\* create_signed_url(path, ttl).get('signedURL') when the bucket answers: a
\* URL with a token of its own for an object it holds, nothing otherwise
create_signed_url(path, token) ==
    IF path \in DOMAIN storage THEN SignedUrl(path, token) ELSE None

----------------------------------------------------------------------------
(* upload_pdf and upload_csv *)

IsUpload(r) == r.op \in {"upload_pdf", "upload_csv"}

UploadPath(op, user_id, name) ==
    IF op = "upload_pdf" THEN PdfUploadPath(user_id, name)
    ELSE CsvUploadPath(user_id, name)

\* the except clause of the route answering as if the upload had succeeded
UploadFailed_Swallowed(r) == Respond(r, 200, "", NoRow)

\* except Exception: raise HTTPException(500, "Upload failed: ..."); the
\* handler undoes none of the writes made before the exception
UploadFailed(r) == Respond(r, 500, "Upload failed", NoRow)

\* the checks before the try block on the file of the request, then the
\* object name is drawn
UploadValidate(s) ==
    LET r == reqs[s] IN
    /\ r.pc = "validate" /\ IsUpload(r)
    /\ \E filename \in UploadFilenames, content_type \in UploadTypes,
          size \in UploadSizes :
          LET rejected == IF r.op = "upload_pdf"
                          THEN PdfValidation(content_type, size)
                          ELSE CsvValidation(filename, content_type, size)
              file == [r EXCEPT !.filename = filename,
                                !.invalid = Invalid(r.op, filename, content_type, size)]
          IN
          IF rejected # 0
          THEN reqs' = [reqs EXCEPT ![s] = Respond(file, rejected, "validation", NoRow)]
          ELSE reqs' = [reqs EXCEPT ![s] =
                          [file EXCEPT !.pc = "put", !.draws = r.draws + 1,
                                       !.path = UploadPath(r.op, r.uid,
                                                           uuid4(s, r.draws + 1))]]
    /\ UNCHANGED <<users, pdf_files, csv_datasets, chat_sessions, chat_messages,
                   storage, ever_cached,
                   fn_vars>>

\* the object is written; the bucket may refuse or be unreachable
UploadPut(s) ==
    LET r == reqs[s] IN
    /\ r.pc = "put"
    /\ \/ /\ r.path \notin DOMAIN storage
          /\ storage' = BucketUpload(r.path, "contents")
          /\ reqs' = [reqs EXCEPT ![s] = [r EXCEPT !.pc = "sign_new", !.wrote = TRUE]]
       \/ /\ UNCHANGED storage
          /\ reqs' = [reqs EXCEPT ![s] = UploadFailed(r)]
    /\ UNCHANGED <<users, pdf_files, csv_datasets, chat_sessions, chat_messages,
                   ever_cached,
                   fn_vars>>

\* the route going on to its insert whatever the signing returned
AfterSign_Unchecked(r, signed_url) ==
    [r EXCEPT !.pc = "insert", !.url = signed_url, !.signs = r.signs + 1]

\* if not signed_url: raise HTTPException(500, "Failed to generate signed
\* URL"), which the except clause of the route catches
AfterSign(r, signed_url) ==
    IF signed_url = None THEN UploadFailed(r)
    ELSE [r EXCEPT !.pc = "insert", !.url = signed_url, !.signs = r.signs + 1]

\* the 7-day signed URL is requested; generate_pdf_signed_url returns None
\* when the bucket gives no URL and when the call raises
UploadSign(s) ==
    LET r == reqs[s] IN
    /\ r.pc = "sign_new"
    /\ \E answered \in BOOLEAN :
          LET signed_url == IF answered
                            THEN create_signed_url(r.path, TokenAtom(s, r.signs + 1))
                            ELSE None
          IN reqs' = [reqs EXCEPT ![s] = AfterSign(r, signed_url)]
    /\ UNCHANGED <<users, pdf_files, csv_datasets, chat_sessions, chat_messages,
                   storage, ever_cached,
                   fn_vars>>

\* the Source row is inserted under a new uuid
UploadInsert(s) ==
    LET r == reqs[s]
        new_id == uuid4(s, r.draws + 1)
    IN
    /\ r.pc = "insert"
    /\ \/ /\ IF r.op = "upload_pdf"
             THEN /\ pdf_files' = pdf_files \cup
                        {NewPdfRow(new_id, r.uid, r.filename, r.path, r.url)}
                  /\ ever_cached' = ever_cached \cup {r.url}
                  /\ UNCHANGED csv_datasets
             ELSE /\ csv_datasets' = csv_datasets \cup
                        {NewCsvRow(new_id, r.uid, r.filename, r.path)}
                  /\ UNCHANGED <<pdf_files, ever_cached>>
          /\ reqs' = [reqs EXCEPT ![s] = [r EXCEPT !.pc = "embed", !.id = new_id,
                                                   !.draws = r.draws + 1,
                                                   !.wrote = TRUE]]
       \/ /\ UNCHANGED <<pdf_files, csv_datasets, ever_cached>>
          /\ reqs' = [reqs EXCEPT ![s] = UploadFailed(r)]
    /\ UNCHANGED <<users, chat_sessions, chat_messages, storage,
                   fn_vars>>

SetStatus(table, id, status) ==
    {IF row.id = id THEN [row EXCEPT !.embedding_status = status] ELSE row :
        row \in table}

\* process_pdf_embeddings / process_csv_embeddings: the statuses the
\* collaborator may leave on the row when it returns and when it raises
EmbedOutcomes(raised) ==
    IF raised THEN {"pending", "processing", "failed"} ELSE {"completed"}

\* the collaborator is awaited: it leaves the status it last reported on
\* the row, then returns or raises
UploadEmbed(s) ==
    LET r == reqs[s] IN
    /\ r.pc = "embed"
    /\ \E raised \in BOOLEAN : \E status \in EmbedOutcomes(raised) :
          /\ IF r.op = "upload_pdf"
             THEN /\ pdf_files' = SetStatus(pdf_files, r.id, status)
                  /\ UNCHANGED csv_datasets
             ELSE /\ csv_datasets' = SetStatus(csv_datasets, r.id, status)
                  /\ UNCHANGED pdf_files
          /\ LET called == [r EXCEPT !.embeds = r.embeds + 1, !.raised = raised] IN
             reqs' = [reqs EXCEPT ![s] =
                IF raised
                THEN UploadFailed(called)
                ELSE Respond(called, 200, "",
                        SourceRow(r.id, "", r.filename, r.path, r.url, ""))]
    /\ UNCHANGED <<users, chat_sessions, chat_messages, storage, ever_cached,
                   fn_vars>>

----------------------------------------------------------------------------
(* get_pdf and get_csv *)

IsGet(r) == r.op \in {"get_pdf", "get_csv"}

\* the ids a client may put in the URL
SourceIds == {row.id : row \in pdf_files \cup csv_datasets} \cup {"missing"}

TableOf(op) == IF op = "get_pdf" THEN pdf_files ELSE csv_datasets

\* the row read by id alone
source_response_AnyOwner(op, id, user_id) ==
    {row \in TableOf(op) : row.id = id}

\* response.data of get_pdf / get_csv: the rows of the table under
\* (id, user_id)
source_response(op, id, user_id) ==
    {row \in TableOf(op) : row.id = id /\ row.user_id = user_id}

\* get_pdf without its Method 2
ResolveStored_PathOnly(pdf_data) == pdf_data.supabase_path

\* Methods 1 and 2 of get_pdf: the stored path, else the path inside the
\* stored URL
ResolveStored(pdf_data) ==
    IF pdf_data.supabase_path # None THEN pdf_data.supabase_path
    ELSE IF pdf_data.public_url # None THEN ExtractPath(pdf_data.public_url)
    ELSE None

\* get_pdf returning the row with the URL it had stored
WithoutUrl_Kept(data) == data

\* the body get_pdf returns when no fresh URL was made
WithoutUrl(data) == [data EXCEPT !.public_url = None]

\* the row is read under (id, user_id) and the stored reference is resolved
GetSelect(s) ==
    /\ reqs[s].pc = "select" /\ IsGet(reqs[s])
    /\ \E id \in SourceIds :
       LET r == [reqs[s] EXCEPT
                   !.id = id,
                   !.foreign = \E row \in TableOf(reqs[s].op) :
                                  row.id = id /\ row.user_id # reqs[s].uid,
                   !.absent = \A row \in TableOf(reqs[s].op) : row.id # id]
           response_data == source_response(r.op, r.id, r.uid)
       IN
       IF response_data = {}
       THEN reqs' = [reqs EXCEPT ![s] = Respond(r, 404, "not found", NoRow)]
       ELSE \E row \in response_data :
              LET file_path == IF r.op = "get_pdf" THEN ResolveStored(row)
                               ELSE row.supabase_path
                  by_url == r.op = "get_pdf" /\ row.supabase_path = None
                            /\ file_path # None
                  seen == [r EXCEPT !.data = row, !.found = TRUE,
                                    !.cached = row.public_url,
                                    !.method = IF by_url THEN 2
                                               ELSE IF file_path # None THEN 1 ELSE 0,
                                    !.resolved = IF by_url THEN file_path ELSE None,
                                    !.after = \E k \in Slots :
                                        /\ reqs[k].pc = "done" /\ reqs[k].id = id
                                        /\ reqs[k].op = r.op
                                        /\ reqs[k].backfilled # None]
              IN
              reqs' = [reqs EXCEPT ![s] =
                IF file_path # None
                THEN [seen EXCEPT !.pc = "sign", !.path = file_path]
                ELSE IF r.op = "get_csv"
                THEN Respond(seen, 500, "File path not available", NoRow)
                ELSE IF row.filename # None
                THEN [seen EXCEPT !.pc = "probe", !.i = 1]
                ELSE Respond(seen, 200, "", WithoutUrl(row))]
    /\ UNCHANGED <<users, pdf_files, csv_datasets, chat_sessions, chat_messages,
                   storage, ever_cached,
                   fn_vars>>

\* Method 3 of get_pdf: the i-th potential path is tried with a 60 s URL;
\* generate_pdf_signed_url returns None when the bucket has no such object
\* and when the call raises
PdfProbe(s) ==
    LET r == reqs[s]
        potential_path == PotentialPaths(r.uid, r.data.filename)[r.i]
        test_url == create_signed_url(potential_path, TokenAtom(s, r.signs + 1))
    IN
    /\ r.pc = "probe"
    /\ \/ /\ test_url # None
          /\ reqs' = [reqs EXCEPT ![s] = [r EXCEPT !.pc = "sign", !.path = potential_path,
                                                   !.signs = r.signs + 1,
                                                   !.method = 3,
                                                   !.resolved = potential_path,
                                                   !.tried = r.i]]
       \/ reqs' = [reqs EXCEPT ![s] =
                IF r.i < Len(PotentialPaths(r.uid, r.data.filename))
                THEN [r EXCEPT !.i = r.i + 1, !.tried = r.i]
                ELSE Respond([r EXCEPT !.tried = r.i], 200, "", WithoutUrl(r.data))]
    /\ UNCHANGED <<users, pdf_files, csv_datasets, chat_sessions, chat_messages,
                   storage, ever_cached,
                   fn_vars>>

\* the response of get_pdf / get_csv when the 1-hour URL could not be made
SignFailed(r) ==
    IF r.op = "get_pdf"
    THEN Respond(r, 200, "", WithoutUrl(r.data))
    ELSE Respond(r, 500, "Failed to generate signed URL", NoRow)

\* the 1-hour signed URL is requested for the resolved path
GetSign(s) ==
    LET r == reqs[s]
        fresh_signed_url == create_signed_url(r.path, TokenAtom(s, r.signs + 1))
    IN
    /\ r.pc = "sign"
    /\ \/ /\ fresh_signed_url # None
          /\ reqs' = [reqs EXCEPT ![s] = [r EXCEPT !.pc = "update",
                                                   !.url = fresh_signed_url,
                                                   !.signs = r.signs + 1,
                                                   !.minted = fresh_signed_url,
                                                   !.novel = fresh_signed_url \notin ever_cached]]
       \/ reqs' = [reqs EXCEPT ![s] = SignFailed(r)]
    /\ UNCHANGED <<users, pdf_files, csv_datasets, chat_sessions, chat_messages,
                   storage, ever_cached,
                   fn_vars>>

\* update_data of get_pdf: the path is added when the row read had none
Backfills(r) == r.op = "get_pdf" /\ r.data.supabase_path = None

\* update_data carrying the fresh URL alone
UpdateRows_UrlOnly(table, r) ==
    {IF row.id = r.id THEN [row EXCEPT !.public_url = r.url] ELSE row : row \in table}

\* update_data carrying an embedding_status beside the fresh URL
UpdateRows_WithStatus(table, r) ==
    {IF row.id = r.id
     THEN [row EXCEPT !.public_url = r.url,
                      !.supabase_path = IF Backfills(r) THEN r.path ELSE @,
                      !.embedding_status = "completed"]
     ELSE row : row \in table}

\* table.update(update_data).eq("id", id)
UpdateRows(table, r) ==
    {IF row.id = r.id
     THEN [row EXCEPT !.public_url = r.url,
                      !.supabase_path = IF Backfills(r) THEN r.path ELSE @]
     ELSE row : row \in table}

\* get_pdf returning the row as it was read
FreshBody_AsRead(r) == r.data

\* the data the handler returns after a fresh URL was made
FreshBody(r) ==
    [r.data EXCEPT !.public_url = r.url,
                   !.supabase_path = IF Backfills(r) THEN r.path ELSE @]

\* the failed update reaching the outer except clause of the route
UpdateFailed_Raised(r) == Respond(r, 500, "update failed", NoRow)

\* except Exception as update_error: print(...); the route goes on to
\* return the data that already carries the fresh URL
UpdateFailed(r) == Respond(r, 200, "", FreshBody(r))

\* the fresh URL is written back; a failure of the write is swallowed
GetUpdate(s) ==
    LET r == reqs[s] IN
    /\ r.pc = "update"
    /\ \/ /\ IF r.op = "get_pdf"
             THEN /\ pdf_files' = UpdateRows(pdf_files, r)
                  /\ UNCHANGED csv_datasets
             ELSE /\ csv_datasets' = UpdateRows(csv_datasets, r)
                  /\ UNCHANGED pdf_files
          /\ ever_cached' = ever_cached \cup {r.url}
          /\ reqs' = [reqs EXCEPT ![s] =
                Respond([r EXCEPT !.wrote = TRUE,
                                  !.backfilled = IF Backfills(r) THEN r.path ELSE None],
                        200, "", FreshBody(r))]
       \/ /\ UNCHANGED <<pdf_files, csv_datasets, ever_cached>>
          /\ reqs' = [reqs EXCEPT ![s] = UpdateFailed(r)]
    /\ UNCHANGED <<users, chat_sessions, chat_messages, storage, fn_vars>>

----------------------------------------------------------------------------
(* The upload routes *)

NoFile == [stem |-> None, ext |-> None, content_type |-> "", size |-> 0]

\* the checks of the pure functions are not running
NoUrlCheck ==
    /\ url_path = None /\ url_pc = "off" /\ url_signed = None /\ url_out = None
    /\ csv_file = NoFile /\ csv_pc = "off" /\ csv_out = 0

UserA == UserRow("ua", EmailOf("clerk_a"), "clerk_a")
UserB == UserRow("ub", EmailOf("clerk_b"), "clerk_b")

\* one account exists, the other is made on its first request
InitUpload ==
    /\ users = {UserA}
    /\ pdf_files = {}
    /\ csv_datasets = {}
    /\ ever_cached = {}
    /\ chat_sessions = {}
    /\ chat_messages = {}
    /\ storage = << >>
    /\ reqs = [s \in 1..MaxUploads |-> IdleReq]
    /\ NoUrlCheck

NextUpload ==
    \E s \in Slots :
        \/ StartUpload(s)
        \/ AuthInsert(s)
        \/ UploadValidate(s)
        \/ UploadPut(s)
        \/ UploadSign(s)
        \/ UploadInsert(s)
        \/ UploadEmbed(s)

SpecUpload == InitUpload /\ [][NextUpload]_vars

----------------------------------------------------------------------------
(* Properties of the upload routes *)

Sources == pdf_files \cup csv_datasets

Answered(s, op_set, status) ==
    reqs[s].pc = "done" /\ reqs[s].op \in op_set /\ reqs[s].status = status

Uploads == {"upload_pdf", "upload_csv"}

\* C6: an upload whose file validation rejects (PDF: content type other
\* than application/pdf or more than 200MB; CSV: filename not ending in .csv
\* or more than 50MB) is answered 400 at its validation step and has written
\* neither an object to the bucket nor a row to pdf_files / csv_datasets.
C6_RejectedUploadWritesNothing ==
    \A s \in Slots :
        (IsUpload(reqs[s]) /\ reqs[s].invalid) =>
            /\ ~reqs[s].wrote
            /\ reqs[s].pc = "done" /\ reqs[s].status = 400
            /\ \A row \in Sources : row.id # reqs[s].id

C6_Witness ==
    \E s, k \in Slots :
        /\ Answered(s, Uploads, 400) /\ reqs[s].invalid
        /\ Answered(k, Uploads, 200) /\ Sources # {}

\* the users rows get_current_user can return for the sender of request s
Accounts(s) == {u \in users : u.email = EmailOf(reqs[s].clerk)}

\* C7: the row an upload inserts has as user_id the id of a users row whose
\* email is the requester's email, never the identity-provider id of the
\* user-id header, and the same id is the owner segment of supabase_path.
C7_OwnerIsInternalId ==
    \A s \in Slots :
        (IsUpload(reqs[s]) /\ reqs[s].id # "") =>
            \E row \in Sources :
                /\ row.id = reqs[s].id
                /\ row.user_id \in {u.id : u \in Accounts(s)}
                /\ row.user_id # reqs[s].clerk
                /\ row.user_id \notin ClerkIds
                /\ row.supabase_path[3] = row.user_id

C7_Witness ==
    \E s \in Slots :
        /\ Answered(s, Uploads, 200) /\ reqs[s].clerk = "clerk_b"
        /\ \E row \in Sources : row.id = reqs[s].id /\ row.user_id # "ua"

\* C8: two uploads that reached their insert made two rows with different
\* ids and different storage paths, and every object written to the bucket
\* is still there beside the others: rows and objects are as many as the
\* inserts and the bucket writes that succeeded.
C8_UploadsAreDistinct ==
    /\ \A r1, r2 \in Sources :
          r1 # r2 => r1.id # r2.id /\ r1.supabase_path # r2.supabase_path
    /\ \A s, k \in Slots :
          (s # k /\ Answered(s, Uploads, 200) /\ Answered(k, Uploads, 200)) =>
             /\ reqs[s].body.id # reqs[k].body.id
             /\ reqs[s].body.supabase_path # reqs[k].body.supabase_path
    /\ Cardinality(Sources) = Cardinality({s \in Slots : reqs[s].id # ""})
    /\ Cardinality(DOMAIN storage) = Cardinality({s \in Slots : reqs[s].wrote})

C8_Witness ==
    \E s, k \in Slots :
        /\ s # k
        /\ Answered(s, Uploads, 200) /\ Answered(k, Uploads, 200)
        /\ reqs[s].op = reqs[k].op /\ reqs[s].clerk = reqs[k].clerk
        /\ \E r1, r2 \in Sources :
              /\ r1.id = reqs[s].id /\ r2.id = reqs[k].id
              /\ r1.filename = r2.filename

\* C12: when the embedding collaborator raises during upload_pdf or
\* upload_csv, the request is answered with the 500 of the except clause,
\* and the row the upload inserted is still in its table with a status among
\* pending, processing, completed, failed, and the object it names is still
\* in the bucket.
C12_EmbeddingFailureKeepsBlobAndRow ==
    \A s \in Slots :
        (IsUpload(reqs[s]) /\ reqs[s].raised) =>
            /\ reqs[s].pc = "done" /\ reqs[s].status = 500
            /\ \E row \in Sources :
                  /\ row.id = reqs[s].id
                  /\ row.embedding_status \in Statuses
                  /\ row.supabase_path \in DOMAIN storage

\* both routes have seen the collaborator raise, one row left pending and
\* one left failed
C12_Witness ==
    \E s, k \in Slots :
        /\ Answered(s, {"upload_pdf"}, 500) /\ reqs[s].raised
        /\ Answered(k, {"upload_csv"}, 500) /\ reqs[k].raised
        /\ \E r1, r2 \in Sources :
              /\ r1.id = reqs[s].id /\ r1.embedding_status = "pending"
              /\ r2.id = reqs[k].id /\ r2.embedding_status = "failed"

\* C18 as stated: the users table holds at most one row per email, and
\* the requests that get_current_user resolved for one email all carry the
\* same internal id.
C18_OneUserRowPerEmail ==
    /\ \A u1, u2 \in users : u1.email = u2.email => u1 = u2
    /\ \A s, k \in Slots :
          (/\ reqs[s].uid # "" /\ reqs[k].uid # ""
           /\ EmailOf(reqs[s].clerk) = EmailOf(reqs[k].clerk)) =>
              reqs[s].uid = reqs[k].uid

\* the row the upload of request s inserted
Inserted(s) == {row \in Sources : row.id = reqs[s].id /\ reqs[s].id # ""}

\* C19: an upload asks for the signed URL only with its object in the
\* bucket, inserts its row only with the object in the bucket and the URL
\* in hand, and calls the embedding collaborator only after the row was
\* inserted with embedding_status pending; the collaborator is called at most
\* once per request, and a request whose bucket write, signing or insert
\* failed is answered 500 without the collaborator having been called.
C19_UploadStepsInOrder ==
    \A s \in Slots :
        IsUpload(reqs[s]) =>
            LET r == reqs[s] IN
            /\ r.embeds \in {0, 1}
            /\ r.pc \in {"validate", "put"} =>
                  ~r.wrote /\ r.url = None /\ Inserted(s) = {} /\ r.embeds = 0
            /\ r.pc = "sign_new" =>
                  /\ r.path \in DOMAIN storage
                  /\ r.url = None /\ Inserted(s) = {} /\ r.embeds = 0
            /\ r.pc = "insert" =>
                  /\ r.path \in DOMAIN storage /\ r.url # None
                  /\ Inserted(s) = {} /\ r.embeds = 0
            /\ r.pc = "embed" =>
                  /\ r.path \in DOMAIN storage /\ r.url # None /\ r.embeds = 0
                  /\ \E row \in Inserted(s) :
                        /\ row.embedding_status = "pending"
                        /\ row.supabase_path = r.path
            /\ r.embeds = 1 => r.pc = "done" /\ Inserted(s) # {}
            /\ (r.pc = "done" /\ Inserted(s) = {}) =>
                  r.embeds = 0 /\ r.status \in {400, 401, 500}

\* one upload went through the four steps and was answered 200 while
\* another stopped at its bucket write, signing or insert
C19_Witness ==
    \E s, k \in Slots :
        /\ Answered(s, Uploads, 200) /\ reqs[s].embeds = 1 /\ Inserted(s) # {}
        /\ Answered(k, Uploads, 500) /\ reqs[k].wrote /\ reqs[k].embeds = 0
        /\ Inserted(k) = {}

----------------------------------------------------------------------------
(* The upload routes and the retrieval routes side by side, started on the *)
(* empty database                                                          *)

\* a client sends an upload or asks for a source by id
StartCall(s) == StartUpload(s) \/ StartGet(s)

InitCalls ==
    /\ users = {UserA}
    /\ pdf_files = {} /\ csv_datasets = {}
    /\ chat_sessions = {} /\ chat_messages = {}
    /\ storage = << >>
    /\ ever_cached = {}
    /\ reqs = [s \in 1..MaxCalls |-> IdleReq]
    /\ NoUrlCheck

NextCalls ==
    \E s \in Slots :
        \/ StartCall(s)
        \/ AuthInsert(s)
        \/ UploadValidate(s)
        \/ UploadPut(s)
        \/ UploadSign(s)
        \/ UploadInsert(s)
        \/ UploadEmbed(s)
        \/ GetSelect(s)
        \/ GetSign(s)
        \/ GetUpdate(s)

SpecCalls == InitCalls /\ [][NextCalls]_vars

\* the step is the awaited call of the embedding collaborator for row id
CollaboratorStep(id) ==
    \E s \in Slots :
        /\ reqs[s].pc = "embed" /\ reqs[s].id = id
        /\ reqs'[s].pc = "done" /\ reqs'[s].embeds = reqs[s].embeds + 1

\* C20: a step that adds a row to pdf_files / csv_datasets adds it with
\* embedding_status pending, and a step that changes the embedding_status
\* of a row is the call of the embedding collaborator made by the upload
\* that inserted the row: the insert, the write-back of get_pdf / get_csv
\* and every other step of the routes leave each embedding_status as it was.
C20_OnlyCollaboratorChangesStatus ==
    [][\A after \in Sources' :
          /\ (\A before \in Sources : before.id # after.id) =>
                after.embedding_status = "pending"
          /\ \A before \in Sources :
                (before.id = after.id
                 /\ before.embedding_status # after.embedding_status) =>
                    CollaboratorStep(after.id)]_vars

\* the write-back of a retrieval has put its fresh URL on a row that the
\* collaborator had left failed, and the row is still failed
C20_Witness ==
    \E s, k \in Slots :
        /\ Answered(s, Uploads, 500) /\ reqs[s].raised
        /\ reqs[k].pc = "done" /\ IsGet(reqs[k]) /\ reqs[k].wrote
        /\ reqs[k].id = reqs[s].id
        /\ \E row \in Sources :
              /\ row.id = reqs[s].id /\ row.embedding_status = "failed"
              /\ row.public_url = reqs[k].minted

----------------------------------------------------------------------------
(* The retrieval routes, started on a database that holds rows the upload  *)
(* routes made and one row of the older schema, which stored no path       *)

OldName == <<"old">> \o DotPdf

\* the public_url the older schema may have left on the row
LegacyUrls ==
    {None,
     SignedUrl(PotentialPaths("ua", OldName)[2], "told"),
     PublicUrl(PotentialPaths("ua", OldName)[1])}

\* the objects the bucket may hold under the names of the older schema
LegacyObjects ==
    {{}, {PotentialPaths("ua", OldName)[2]},
     {PotentialPaths("ua", OldName)[1], PotentialPaths("ua", OldName)[2]}}

UploadedPdf ==
    NewPdfRow("pdf1", "ua", <<"data">> \o DotPdf, PdfUploadPath("ua", "name1"),
              SignedUrl(PdfUploadPath("ua", "name1"), "tnew"))

UploadedCsv ==
    NewCsvRow("csv1", "ub", <<"data">> \o DotCsv, CsvUploadPath("ub", "name2"))

InitGet ==
    /\ users = {UserA, UserB}
    /\ \E legacy_url \in LegacyUrls :
          /\ pdf_files = {SourceRow("old", "ua", OldName, None, legacy_url, "completed"),
                          UploadedPdf}
          /\ ever_cached = {legacy_url, UploadedPdf.public_url}
    /\ csv_datasets = {UploadedCsv}
    /\ chat_sessions = {}
    /\ chat_messages = {}
    /\ \E objects \in LegacyObjects :
          storage = [p \in objects \cup {UploadedPdf.supabase_path,
                                         UploadedCsv.supabase_path} |-> "contents"]
    /\ reqs = [s \in 1..MaxGets |-> IdleReq]
    /\ NoUrlCheck

NextGet ==
    \E s \in Slots :
        \/ StartGet(s)
        \/ GetSelect(s)
        \/ PdfProbe(s)
        \/ GetSign(s)
        \/ GetUpdate(s)

SpecGet == InitGet /\ [][NextGet]_vars

----------------------------------------------------------------------------
(* Properties of the retrieval routes *)

Gets == {"get_pdf", "get_csv"}

\* request s read its row and ended without a fresh signed URL: no path was
\* resolved or the bucket signed none
Unreachable(s) ==
    reqs[s].pc = "done" /\ IsGet(reqs[s]) /\ reqs[s].found /\ reqs[s].minted = None

\* C1: for PDF and CSV alike, a retrieval that found the row under its owner
\* and could make no fresh URL is answered 200 with the row's data and an
\* empty public_url.
C1_UnreachableFileStillReturnsDetail ==
    \A s \in Slots :
        Unreachable(s) =>
            /\ reqs[s].status = 200
            /\ reqs[s].body.id = reqs[s].id
            /\ reqs[s].body.public_url = None

\* C2: the public_url of every answer of get_pdf / get_csv is empty or is the
\* URL the bucket signed during that request, which differs from the URL the
\* row held when it was read and from every URL a row ever held before.
C2_NeverReturnsCachedUrl ==
    \A s \in Slots :
        (reqs[s].pc = "done" /\ IsGet(reqs[s])) =>
            \/ reqs[s].body.public_url = None
            \/ /\ reqs[s].body.public_url = reqs[s].minted
               /\ reqs[s].body.public_url # reqs[s].cached
               /\ reqs[s].novel

C2_Witness ==
    \E s, k \in Slots :
        /\ s # k /\ reqs[s].id = reqs[k].id
        /\ Answered(s, Gets, 200) /\ Answered(k, Gets, 200)
        /\ reqs[s].cached # None /\ reqs[s].body.public_url # None
        /\ reqs[k].cached # None /\ reqs[k].body.public_url = None

\* C10: two get_pdf requests that both read the same row without a storage
\* path and both wrote one back wrote the same path, and that path is the
\* one on the row.
C10_ConcurrentBackfillConverges ==
    \A s, k \in Slots :
        (/\ Answered(s, {"get_pdf"}, 200) /\ Answered(k, {"get_pdf"}, 200)
         /\ reqs[s].id = reqs[k].id
         /\ reqs[s].backfilled # None /\ reqs[k].backfilled # None) =>
            /\ reqs[s].backfilled = reqs[k].backfilled
            /\ \A row \in pdf_files :
                  row.id = reqs[s].id => row.supabase_path = reqs[s].backfilled

\* C11 as stated: whenever get_pdf has resolved a path by Method 2 (the
\* stored URL) or Method 3 (the potential paths), that path is the row's
\* supabase_path once the request is answered.
C11_ResolvedPathIsAlwaysStored ==
    \A s \in Slots :
        (reqs[s].pc = "done" /\ reqs[s].op = "get_pdf" /\ reqs[s].method \in {2, 3}) =>
            \A row \in pdf_files :
                row.id = reqs[s].id => row.supabase_path = reqs[s].resolved

\* the paths that write-backs of answered requests stored on the row
StoredBackfills(id) ==
    {reqs[k].backfilled : k \in {j \in Slots : /\ reqs[j].pc = "done"
                                               /\ reqs[j].op = "get_pdf"
                                               /\ reqs[j].id = id
                                               /\ reqs[j].backfilled # None}}

\* C11, amended: when get_pdf resolved a path by Method 2 or 3, signed a
\* fresh URL for it and its write-back succeeded, the path written is the
\* resolved one, the row keeps a non-empty supabase_path that some
\* write-back stored, and every get_pdf that reads the row after that
\* write-back resolves by Method 1.
C11_StoredBackfillEndsLegacyResolution ==
    /\ \A s \in Slots :
          (reqs[s].pc = "done" /\ reqs[s].op = "get_pdf" /\ reqs[s].backfilled # None) =>
              /\ reqs[s].method \in {2, 3}
              /\ reqs[s].backfilled = reqs[s].resolved
              /\ \A row \in pdf_files :
                    row.id = reqs[s].id =>
                        /\ row.supabase_path # None
                        /\ row.supabase_path \in StoredBackfills(row.id)
    /\ \A k \in Slots :
          (reqs[k].op = "get_pdf" /\ reqs[k].found /\ reqs[k].after) =>
              reqs[k].method = 1

\* a probed path was stored and a later read of the row used Method 1
C11_Witness ==
    \E s, k \in Slots :
        /\ reqs[s].pc = "done" /\ reqs[s].op = "get_pdf" /\ reqs[s].method = 3
        /\ reqs[s].backfilled # None
        /\ reqs[k].pc = "done" /\ reqs[k].op = "get_pdf" /\ reqs[k].id = reqs[s].id
        /\ reqs[k].after /\ reqs[k].method = 1 /\ reqs[k].status = 200

\* the write-back of the answered retrieval s failed: a fresh URL was
\* signed and the row was not written
WriteBackFailed(s) ==
    /\ reqs[s].pc = "done" /\ IsGet(reqs[s])
    /\ reqs[s].minted # None /\ ~reqs[s].wrote

\* C21: a get_pdf / get_csv that signed a fresh URL and whose update of
\* the row failed is answered 200 with no error detail, and the data it
\* returns is the row it read carrying the fresh URL (and, for a get_pdf
\* that resolved the path itself, that path).
C21_FailedWriteBackIsSwallowed ==
    \A s \in Slots :
        WriteBackFailed(s) =>
            /\ reqs[s].status = 200 /\ reqs[s].detail = ""
            /\ reqs[s].body.id = reqs[s].id
            /\ reqs[s].body.public_url = reqs[s].minted
            /\ reqs[s].method \in {2, 3} =>
                  reqs[s].body.supabase_path = reqs[s].resolved

\* a get_csv and a get_pdf of a row without path were both answered with
\* their fresh URL after the update failed, and the row still has no path
C21_Witness ==
    \E s, k \in Slots :
        /\ WriteBackFailed(s) /\ reqs[s].op = "get_csv" /\ reqs[s].status = 200
        /\ WriteBackFailed(k) /\ reqs[k].op = "get_pdf" /\ reqs[k].method = 3
        /\ reqs[k].status = 200
        /\ \E row \in pdf_files : row.id = reqs[k].id /\ row.supabase_path = None

\* the path Method 2 reads out of the public_url of the row read
UrlPath(pdf_data) ==
    IF pdf_data.public_url = None THEN None ELSE ExtractPath(pdf_data.public_url)

\* C22: get_pdf takes the supabase_path of the row it read when there is
\* one, and then neither parses the stored URL nor probes, also when signing
\* that path fails; without one it takes the path parsed from the stored
\* URL; without that it asks the bucket about the potential paths in their
\* order and takes the first for which a URL comes back; and when no path
\* was found it signs nothing, writes nothing and returns no path.
C22_ResolverPrecedence ==
    \A s \in Slots :
        LET r == reqs[s] IN
        (r.op = "get_pdf" /\ r.found) =>
            /\ r.pc \in {"sign", "update"} =>
                  IF r.data.supabase_path # None
                  THEN r.path = r.data.supabase_path /\ r.method = 1 /\ r.tried = 0
                  ELSE IF UrlPath(r.data) # None
                  THEN r.path = UrlPath(r.data) /\ r.method = 2 /\ r.tried = 0
                  ELSE /\ r.method = 3 /\ r.tried \in 1..3
                       /\ r.path = PotentialPaths(r.uid, r.data.filename)[r.tried]
            /\ r.pc = "probe" =>
                  /\ r.data.supabase_path = None /\ UrlPath(r.data) = None
                  /\ r.method = 0 /\ r.i = r.tried + 1 /\ r.path = None
            /\ r.method \in {1, 2} => r.tried = 0
            /\ r.method = 1 => r.resolved = None /\ r.backfilled = None
            /\ (r.pc = "done" /\ r.method = 0) =>
                  /\ r.status = 200 /\ r.tried = 3
                  /\ r.minted = None /\ ~r.wrote /\ r.backfilled = None
                  /\ r.body.supabase_path = None /\ r.body.public_url = None

\* one get_pdf took the second potential path after the first was refused;
\* another failed to sign the stored path and tried nothing else
C22_Witness ==
    \E s, k \in Slots :
        /\ Answered(s, {"get_pdf"}, 200) /\ reqs[s].method = 3 /\ reqs[s].tried = 2
        /\ reqs[s].minted # None
        /\ Answered(k, {"get_pdf"}, 200) /\ reqs[k].method = 1 /\ reqs[k].tried = 0
        /\ reqs[k].minted = None /\ reqs[k].found

\* C23 as stated: no step changes a non-empty supabase_path of a row of
\* pdf_files / csv_datasets to another value.
C23_StoredPathNeverChanges ==
    [][\A before \in Sources : \A after \in Sources' :
          (before.id = after.id /\ before.supabase_path # None) =>
              after.supabase_path = before.supabase_path]_vars

\* C24: every step of a get_pdf / get_csv that has signed no fresh URL, up
\* to and including the step that answers it, leaves pdf_files,
\* csv_datasets and the bucket as they were; the request is answered having
\* written nothing, and the row get_pdf returns is the row it read with an
\* empty public_url.
C24_NoFreshUrlWritesNothing ==
    [][\A s \in Slots :
          (/\ IsGet(reqs'[s]) /\ reqs'[s] # reqs[s]
           /\ reqs'[s].minted = None) =>
              /\ UNCHANGED <<pdf_files, csv_datasets, storage, ever_cached>>
              /\ ~reqs'[s].wrote /\ reqs'[s].backfilled = None
              /\ (reqs'[s].pc = "done" /\ reqs'[s].found) =>
                    /\ reqs'[s].body.public_url = None
                    /\ reqs'[s].op = "get_pdf" =>
                          /\ reqs'[s].status = 200
                          /\ reqs'[s].body = [reqs[s].data EXCEPT !.public_url = None]]_vars

\* a get_pdf of a row with a stored URL was answered without URL after
\* signing failed, and the row still holds the URL it had
C24_Witness ==
    \E s \in Slots :
        /\ Answered(s, {"get_pdf"}, 200) /\ reqs[s].found /\ reqs[s].minted = None
        /\ reqs[s].cached # None /\ reqs[s].body.public_url = None
        /\ \E row \in pdf_files :
              row.id = reqs[s].id /\ row.public_url = reqs[s].cached

----------------------------------------------------------------------------
(* The retrieval routes on two rows of the older schema that carry the     *)
(* same filename, under one owner or under two                             *)

InitLegacy ==
    /\ users = {UserA, UserB}
    /\ \E owner \in {"ua", "ub"} :
          pdf_files = {SourceRow("old", "ua", OldName, None, None, "completed"),
                       SourceRow("old2", owner, OldName, None, None, "completed"),
                       UploadedPdf}
    /\ ever_cached = {None, UploadedPdf.public_url}
    /\ csv_datasets = {UploadedCsv}
    /\ chat_sessions = {}
    /\ chat_messages = {}
    /\ \E objects \in LegacyObjects :
          storage = [p \in objects \cup {UploadedPdf.supabase_path,
                                         UploadedCsv.supabase_path} |-> "contents"]
    /\ reqs = [s \in 1..MaxGets |-> IdleReq]
    /\ NoUrlCheck

SpecLegacy == InitLegacy /\ [][NextGet]_vars

\* C14 as stated: no two rows of pdf_files / csv_datasets carry the same
\* non-empty supabase_path, whether the path was set by an upload or by
\* the write-back of get_pdf.
C14_StorageReferencesAreUnique ==
    \A r1, r2 \in Sources :
        (r1.id # r2.id /\ r1.supabase_path # None) =>
            r1.supabase_path # r2.supabase_path

----------------------------------------------------------------------------
(* chat_routes.py *)

ChatOps == {"create_session", "get_session", "delete_session", "get_messages"}

src_vars == <<users, pdf_files, csv_datasets, storage, ever_cached,
              fn_vars>>

\* a client sends a request to /api/chat
StartChat(s) ==
    \E op \in ChatOps, clerk \in ClerkIds : AuthSelect(s, op, clerk)

\* the rows of pdf_files read by id alone
pdf_response_AnyOwner(source_id, user_id) ==
    {row \in pdf_files : row.id = source_id}

\* pdf_response.data of create_chat_session: the rows of pdf_files under
\* (source_id, user_id)
pdf_response(source_id, user_id) ==
    {row \in pdf_files : row.id = source_id /\ row.user_id = user_id}

\* create_chat_session reading by id alone and answering 403 to non-owners
SourceCheck_Forbidden(source_id, user_id) ==
    IF source_id = "" THEN 0
    ELSE IF \A row \in pdf_files : row.id # source_id THEN 404
    ELSE IF pdf_response(source_id, user_id) = {} THEN 403
    ELSE 0

\* the HTTPException create_chat_session raises for a source it may not
\* use, 0 when it raises none
SourceCheck(source_id, user_id) ==
    IF source_id # "" /\ pdf_response(source_id, user_id) = {} THEN 404 ELSE 0

Denied(r, status) ==
    Respond(r, status,
            IF status = 404
            THEN "PDF not found or you don't have permission to access it"
            ELSE "Forbidden",
            NoRow)

\* create_chat_session up to its read of pdf_files
CreateCheck(s) ==
    /\ reqs[s].pc = "cs_check"
    /\ \E source_id \in SourceIds \cup {""} :
          LET r == [reqs[s] EXCEPT
                      !.source_id = source_id,
                      !.foreign = \E row \in Sources :
                                     row.id = source_id /\ row.user_id # reqs[s].uid,
                      !.absent = source_id # "" /\ \A row \in Sources : row.id # source_id]
              denied == SourceCheck(source_id, r.uid)
          IN
          reqs' = [reqs EXCEPT ![s] =
                     IF denied # 0 THEN Denied(r, denied)
                     ELSE [r EXCEPT !.pc = "cs_insert"]]
    /\ UNCHANGED <<chat_sessions, chat_messages>>
    /\ UNCHANGED src_vars

\* the session row is inserted under a new uuid
CreateInsert(s) ==
    LET r == reqs[s]
        session_data == SessionRow(uuid4(s, r.draws + 1), r.uid, "title",
                                   "pdf-chat", r.source_id)
    IN
    /\ r.pc = "cs_insert"
    /\ \/ /\ chat_sessions' = chat_sessions \cup {session_data}
          /\ reqs' = [reqs EXCEPT ![s] =
                [Respond([r EXCEPT !.wrote = TRUE], 200, "", NoRow)
                    EXCEPT !.id = session_data.id, !.session = session_data]]
       \/ /\ UNCHANGED chat_sessions
          /\ reqs' = [reqs EXCEPT ![s] =
                Respond(r, 500, "Failed to create chat session", NoRow)]
    /\ UNCHANGED chat_messages
    /\ UNCHANGED src_vars

\* the session ids a client may put in the URL
SessionIds ==
    {row.id : row \in chat_sessions} \cup {reqs[k].id : k \in Slots} \cup {"missing"}

\* the session read by id alone
session_response_AnyOwner(session_id, user_id) ==
    {row \in chat_sessions : row.id = session_id}

\* the session read through a join on its messages
session_response_WithMessages(session_id, user_id) ==
    {row \in chat_sessions : /\ row.id = session_id /\ row.user_id = user_id
                             /\ \E m \in chat_messages : m.session_id = row.id}

\* the rows of chat_sessions under (session_id, user_id)
session_response(session_id, user_id) ==
    {row \in chat_sessions : row.id = session_id /\ row.user_id = user_id}

\* an answered delete_chat_session has reported session_id deleted
Deleted(session_id) ==
    \E k \in Slots :
        /\ reqs[k].pc = "done" /\ reqs[k].op = "delete_session"
        /\ reqs[k].status = 200 /\ reqs[k].id = session_id

\* a delete_chat_session of user_id for session_id has deleted the messages
\* and then stopped: it was answered 500, or it has not run its session
\* delete (it may never run it)
Stopped(session_id, user_id) ==
    \E j \in Slots :
        /\ reqs[j].op = "delete_session" /\ reqs[j].id = session_id
        /\ reqs[j].uid = user_id /\ reqs[j].wrote
        /\ \/ reqs[j].pc = "ds_session"
           \/ reqs[j].pc = "done" /\ reqs[j].status = 500

\* the request names a session of another user / a session no row has
Named(r, session_id) ==
    [r EXCEPT !.id = session_id,
              !.foreign = \E row \in chat_sessions :
                             row.id = session_id /\ row.user_id # r.uid,
              !.absent = \A row \in chat_sessions : row.id # session_id]

NotFound(r) == Respond(r, 404, "Chat session not found", NoRow)

\* get_chat_session
GetSession(s) ==
    /\ reqs[s].pc = "gs_select"
    /\ \E session_id \in SessionIds \ {""} :
          LET r == [Named(reqs[s], session_id) EXCEPT !.late = Deleted(session_id)]
              found == session_response(session_id, r.uid)
          IN
          IF found = {}
          THEN reqs' = [reqs EXCEPT ![s] = NotFound(r)]
          ELSE \E row \in found :
                  reqs' = [reqs EXCEPT ![s] =
                        [Respond(r, 200, "", NoRow) EXCEPT !.session = row]]
    /\ UNCHANGED <<chat_sessions, chat_messages>>
    /\ UNCHANGED src_vars

\* delete_chat_session up to its read of chat_sessions
DeleteSelect(s) ==
    /\ reqs[s].pc = "ds_select"
    /\ \E session_id \in SessionIds \ {""} :
          LET r == [Named(reqs[s], session_id) EXCEPT
                      !.rerun = /\ Stopped(session_id, reqs[s].uid)
                                /\ \E row \in chat_sessions :
                                      /\ row.id = session_id
                                      /\ row.user_id = reqs[s].uid]
          IN
          reqs' = [reqs EXCEPT ![s] =
                     IF session_response(session_id, r.uid) = {}
                     THEN NotFound(r)
                     ELSE [r EXCEPT !.pc = "ds_messages"]]
    /\ UNCHANGED <<chat_sessions, chat_messages>>
    /\ UNCHANGED src_vars

\* table("chat_messages").delete().eq("session_id", session_id)
DeleteMessageRows(session_id) ==
    {m \in chat_messages : m.session_id # session_id}

\* a delete whose filter matches no row
DeleteSessionRows_NoMatch(session_id, user_id) == chat_sessions

\* table("chat_sessions").delete().eq("id", session_id).eq("user_id", user_id)
DeleteSessionRows(session_id, user_id) ==
    {row \in chat_sessions : ~(row.id = session_id /\ row.user_id = user_id)}

\* the messages of the session are deleted; the store may fail
DeleteMessages(s) ==
    LET r == reqs[s] IN
    /\ r.pc = "ds_messages"
    /\ \/ /\ chat_messages' = DeleteMessageRows(r.id)
          /\ reqs' = [reqs EXCEPT ![s] = [r EXCEPT !.pc = "ds_session", !.wrote = TRUE]]
       \/ /\ UNCHANGED chat_messages
          /\ reqs' = [reqs EXCEPT ![s] = Respond(r, 500, "store error", NoRow)]
    /\ UNCHANGED chat_sessions
    /\ UNCHANGED src_vars

\* the foreign key of chat_messages.session_id: a session row that messages
\* refer to cannot be deleted
ForeignKeyHolds(sessions) ==
    \A m \in chat_messages : \E row \in sessions : row.id = m.session_id

\* the session row is deleted; the store may fail or refuse
DeleteSession(s) ==
    LET r == reqs[s] IN
    /\ r.pc = "ds_session"
    /\ \/ /\ ForeignKeyHolds(DeleteSessionRows(r.id, r.uid))
          /\ chat_sessions' = DeleteSessionRows(r.id, r.uid)
          /\ reqs' = [reqs EXCEPT ![s] = Respond(r, 200, "", NoRow)]
       \/ /\ UNCHANGED chat_sessions
          /\ reqs' = [reqs EXCEPT ![s] = Respond(r, 500, "store error", NoRow)]
    /\ UNCHANGED chat_messages
    /\ UNCHANGED src_vars

\* get_chat_messages up to its read of chat_sessions
MessagesSelect(s) ==
    /\ reqs[s].pc = "gm_select"
    /\ \E session_id \in SessionIds \ {""} :
          LET r == [Named(reqs[s], session_id) EXCEPT !.late = Deleted(session_id)] IN
          reqs' = [reqs EXCEPT ![s] =
                     IF session_response(session_id, r.uid) = {}
                     THEN NotFound(r)
                     ELSE [r EXCEPT !.pc = "gm_fetch"]]
    /\ UNCHANGED <<chat_sessions, chat_messages>>
    /\ UNCHANGED src_vars

\* the messages of the session are read
MessagesFetch(s) ==
    LET r == reqs[s]
        messages_response == {m \in chat_messages : m.session_id = r.id}
    IN
    /\ r.pc = "gm_fetch"
    /\ reqs' = [reqs EXCEPT ![s] =
          [Respond(r, 200, "", NoRow) EXCEPT !.count = Cardinality(messages_response)]]
    /\ UNCHANGED <<chat_sessions, chat_messages>>
    /\ UNCHANGED src_vars

\* the chat interaction writes a message into a session that exists
AddMessage ==
    /\ \E row \in chat_sessions :
          LET n == Cardinality({m \in chat_messages : m.session_id = row.id}) IN
          /\ n < MaxMessages
          /\ chat_messages' = chat_messages \cup {MessageRow(row.id, n + 1)}
    /\ UNCHANGED <<chat_sessions, reqs>>
    /\ UNCHANGED src_vars

OtherPdf ==
    NewPdfRow("pdf2", "ub", <<"data">> \o DotPdf, PdfUploadPath("ub", "name3"),
              SignedUrl(PdfUploadPath("ub", "name3"), "tnew"))

\* both accounts exist, each owns a source, and clerk_a has one session
\* with one message
InitChat ==
    /\ users = {UserA, UserB}
    /\ pdf_files = {UploadedPdf, OtherPdf}
    /\ csv_datasets = {UploadedCsv}
    /\ ever_cached = {UploadedPdf.public_url, OtherPdf.public_url}
    /\ storage = [p \in {UploadedPdf.supabase_path, OtherPdf.supabase_path,
                         UploadedCsv.supabase_path} |-> "contents"]
    /\ chat_sessions = {SessionRow("s0", "ua", "title", "pdf-chat", "pdf1")}
    /\ chat_messages = {MessageRow("s0", 1)}
    /\ reqs = [s \in 1..MaxChats |-> IdleReq]
    /\ NoUrlCheck

NextChat ==
    \/ \E s \in Slots :
        \/ StartChat(s)
        \/ CreateCheck(s)
        \/ CreateInsert(s)
        \/ GetSession(s)
        \/ DeleteSelect(s)
        \/ DeleteMessages(s)
        \/ DeleteSession(s)
        \/ MessagesSelect(s)
        \/ MessagesFetch(s)
    \/ AddMessage

SpecChat == InitChat /\ [][NextChat]_vars

\* C3: create_chat_session naming a source that exists under another user
\* is answered 404, inserts no session, and its answer (status, detail,
\* data) is the answer given for a source id that no row has.
C3_ForeignSourceIsNotFound ==
    \A s \in Slots :
        (reqs[s].op = "create_session" /\ reqs[s].foreign) =>
            /\ reqs[s].pc = "done" /\ reqs[s].status = 404
            /\ ~reqs[s].wrote
            /\ \A row \in chat_sessions :
                  ~(row.user_id = reqs[s].uid /\ row.source_id = reqs[s].source_id)
            /\ \A k \in Slots :
                  (reqs[k].op = "create_session" /\ reqs[k].absent) =>
                     /\ reqs[k].status = reqs[s].status
                     /\ reqs[k].detail = reqs[s].detail
                     /\ reqs[k].body = reqs[s].body
                     /\ reqs[k].session = reqs[s].session

C3_Witness ==
    \E s, k \in Slots :
        /\ Answered(s, {"create_session"}, 404) /\ reqs[s].foreign
        /\ reqs[s].source_id = "pdf2"
        /\ Answered(k, {"create_session"}, 404) /\ reqs[k].absent

\* C4: once delete_chat_session has answered 200 for a session id, no row
\* of chat_sessions has that id and no message refers to it, and every
\* get_chat_session and get_chat_messages that reads the id afterwards, for
\* any user, is answered 404.
C4_DeletedSessionIsGone ==
    /\ \A s \in Slots :
          Answered(s, {"delete_session"}, 200) =>
             /\ \A row \in chat_sessions : row.id # reqs[s].id
             /\ \A m \in chat_messages : m.session_id # reqs[s].id
    /\ \A k \in Slots :
          (reqs[k].op \in {"get_session", "get_messages"} /\ reqs[k].late) =>
             reqs[k].pc = "done" /\ reqs[k].status = 404

C4_Witness ==
    \E s, k \in Slots :
        /\ Answered(s, {"delete_session"}, 200) /\ reqs[s].id = "s0"
        /\ Answered(k, {"get_messages"}, 404) /\ reqs[k].late
        /\ reqs[k].clerk = "clerk_a"

\* C13: a delete_chat_session by the owner that starts on a session whose
\* earlier delete stopped after the message delete and before the session
\* delete is not answered 404: it is answered 200 unless the store fails
\* again (500), and once it is answered 200 the session row and every
\* message of the session are gone.
C13_RerunOfStoppedDeleteCompletes ==
    \A k \in Slots :
        (reqs[k].op = "delete_session" /\ reqs[k].rerun /\ reqs[k].pc = "done") =>
            /\ reqs[k].status \in {200, 500}
            /\ reqs[k].status = 500 => reqs[k].detail = "store error"
            /\ reqs[k].status = 200 =>
                  /\ \A row \in chat_sessions : row.id # reqs[k].id
                  /\ \A m \in chat_messages : m.session_id # reqs[k].id

\* a delete answered 500 after its message delete, and its re-run
\* answered 200
C13_Witness ==
    \E j, k \in Slots :
        /\ Answered(j, {"delete_session"}, 500) /\ reqs[j].wrote
        /\ Answered(k, {"delete_session"}, 200) /\ reqs[k].rerun
        /\ reqs[k].id = reqs[j].id /\ reqs[k].id = "s0"

\* C15: every row of chat_sessions with a source_id names a source whose
\* user_id is the user_id of the session, and every create_chat_session
\* that was answered 200 with a source_id inserted its session under the
\* requester's id for a source the requester owned when the row was
\* inserted (sources are neither deleted nor given to another owner).
C15_SessionSourceOwnedAtCreation ==
    /\ \A row \in chat_sessions :
          row.source_id # "" =>
              \E src \in Sources :
                  src.id = row.source_id /\ src.user_id = row.user_id
    /\ \A s \in Slots :
          (Answered(s, {"create_session"}, 200) /\ reqs[s].source_id # "") =>
              /\ reqs[s].session.user_id = reqs[s].uid
              /\ reqs[s].session.source_id = reqs[s].source_id
              /\ ~reqs[s].foreign /\ ~reqs[s].absent

\* clerk_b has a session on its own pdf2 while a create_chat_session of
\* clerk_a for pdf2 was refused
C15_Witness ==
    \E s, k \in Slots :
        /\ Answered(s, {"create_session"}, 200) /\ reqs[s].source_id = "pdf2"
        /\ reqs[s].session \in chat_sessions /\ reqs[s].session.user_id = "ub"
        /\ Answered(k, {"create_session"}, 404) /\ reqs[k].source_id = "pdf2"
        /\ reqs[k].uid = "ua"

\* C16 as stated: a create_chat_session whose source_id is the id of a row
\* of pdf_files or of csv_datasets owned by the requester is not answered
\* 404: the session is inserted unless the insert itself fails.
C16_OwnedSourceOfEitherVariantAccepted ==
    \A s \in Slots :
        (/\ reqs[s].op = "create_session" /\ reqs[s].pc = "done"
         /\ \E src \in Sources :
               src.id = reqs[s].source_id /\ src.user_id = reqs[s].uid) =>
            reqs[s].status # 404

\* C25: a delete_chat_session that named a session owned by another user,
\* or a session id no row had, is answered 404 by the step that read
\* chat_sessions, and no step of it deletes a message or a session row; a
\* delete_chat_session reaches its message delete only after it has read
\* the session under the requester's id.
C25_DeleteOnlyAfterOwnedSessionFound ==
    [][\A s \in Slots :
          (reqs'[s].op = "delete_session" /\ reqs'[s] # reqs[s]) =>
              /\ (reqs'[s].foreign \/ reqs'[s].absent) =>
                    /\ reqs[s].pc = "ds_select"
                    /\ reqs'[s].pc = "done" /\ reqs'[s].status = 404
                    /\ ~reqs'[s].wrote
                    /\ UNCHANGED <<chat_sessions, chat_messages>>
              /\ reqs'[s].pc = "ds_messages" =>
                    /\ reqs[s].pc = "ds_select"
                    /\ \E row \in chat_sessions :
                          row.id = reqs'[s].id /\ row.user_id = reqs'[s].uid
                    /\ UNCHANGED <<chat_sessions, chat_messages>>
              /\ chat_messages' # chat_messages => reqs[s].pc = "ds_messages"
              /\ chat_sessions' # chat_sessions => reqs[s].pc = "ds_session"]_vars

\* clerk_b was refused the deletion of the session of clerk_a, another
\* delete named an id no row has, and the session and its message are there
C25_Witness ==
    \E s, k \in Slots :
        /\ Answered(s, {"delete_session"}, 404) /\ reqs[s].foreign
        /\ reqs[s].id = "s0" /\ reqs[s].uid = "ub"
        /\ Answered(k, {"delete_session"}, 404) /\ reqs[k].absent
        /\ \E row \in chat_sessions : row.id = "s0" /\ row.user_id = "ua"
        /\ \E m \in chat_messages : m.session_id = "s0"

----------------------------------------------------------------------------
(* The routes that take a record id, side by side on one database *)

ByIdOps == {"get_pdf", "get_csv", "get_session", "delete_session", "get_messages"}

\* a client sends a request that names a source or a session by id
StartById(s) ==
    \E op \in ByIdOps, clerk \in ClerkIds : AuthSelect(s, op, clerk)

InitById ==
    /\ users = {UserA, UserB}
    /\ pdf_files = {UploadedPdf, OtherPdf}
    /\ csv_datasets = {UploadedCsv}
    /\ ever_cached = {UploadedPdf.public_url, OtherPdf.public_url}
    /\ storage = [p \in {UploadedPdf.supabase_path, OtherPdf.supabase_path,
                         UploadedCsv.supabase_path} |-> "contents"]
    /\ chat_sessions = {SessionRow("s0", "ua", "title", "pdf-chat", "pdf1")}
    /\ chat_messages = {MessageRow("s0", 1)}
    /\ reqs = [s \in 1..MaxReads |-> IdleReq]
    /\ NoUrlCheck

NextById ==
    \E s \in Slots :
        \/ StartById(s)
        \/ GetSelect(s)
        \/ GetSign(s)
        \/ GetUpdate(s)
        \/ GetSession(s)
        \/ DeleteSelect(s)
        \/ DeleteMessages(s)
        \/ DeleteSession(s)
        \/ MessagesSelect(s)
        \/ MessagesFetch(s)

SpecById == InitById /\ [][NextById]_vars

\* C17: get_pdf, get_csv, get_chat_session, delete_chat_session and
\* get_chat_messages answer a request for a row owned by another user with
\* 404 at their first read, with no row, session or message count in the
\* answer, no signed URL made and nothing written; and the answer (status,
\* detail, data) is the one the same route gives for an id no row has.
C17_ForeignRecordLooksAbsent ==
    \A s \in Slots :
        (reqs[s].op \in ByIdOps /\ reqs[s].foreign) =>
            /\ reqs[s].pc = "done" /\ reqs[s].status = 404
            /\ reqs[s].body = NoRow /\ reqs[s].session = NoSession
            /\ reqs[s].count = 0
            /\ reqs[s].minted = None /\ ~reqs[s].wrote /\ ~reqs[s].found
            /\ \A k \in Slots :
                  (reqs[k].op = reqs[s].op /\ reqs[k].absent) =>
                     /\ reqs[k].pc = "done"
                     /\ reqs[k].status = reqs[s].status
                     /\ reqs[k].detail = reqs[s].detail
                     /\ reqs[k].body = reqs[s].body
                     /\ reqs[k].session = reqs[s].session
                     /\ reqs[k].count = reqs[s].count

\* clerk_a was refused the CSV of clerk_b and clerk_b was refused the
\* deletion of the session of clerk_a, which is still there with its message
C17_Witness ==
    \E s, k \in Slots :
        /\ Answered(s, {"get_csv"}, 404) /\ reqs[s].foreign /\ reqs[s].id = "csv1"
        /\ Answered(k, {"delete_session"}, 404) /\ reqs[k].foreign
        /\ reqs[k].id = "s0"
        /\ \E row \in chat_sessions : row.id = "s0"
        /\ \E m \in chat_messages : m.session_id = "s0"

----------------------------------------------------------------------------
(* Method 2 of get_pdf on the URL the bucket signed for a path *)

MaxSegments == 4    \* segments of the object paths tried

Segments ==
    { <<"a">>, <<"pdfs">>, <<"object">>, <<"sign">>, <<"a", " ", "b">>,
      <<"%", "2", "0">>, <<"q", "?">> }

SegmentLists == UNION {[1..n -> Segments] : n \in 1..MaxSegments}

ObjectPaths == {Join(segs, <<"/">>) : segs \in SegmentLists}

InitUrl ==
    /\ users = {UserA}
    /\ pdf_files = {} /\ csv_datasets = {} /\ ever_cached = {}
    /\ chat_sessions = {} /\ chat_messages = {}
    /\ storage = << >>
    /\ reqs = << >>
    /\ url_path \in ObjectPaths
    /\ url_pc = "path" /\ url_signed = None /\ url_out = None
    /\ csv_file = NoFile /\ csv_pc = "off" /\ csv_out = 0

\* the bucket signs a URL for the path, as create_signed_url does at upload
UrlSign ==
    /\ url_pc = "path"
    /\ url_signed' = SignedUrl(url_path, "token")
    /\ url_pc' = "signed"
    /\ UNCHANGED <<users, pdf_files, csv_datasets, chat_sessions, chat_messages,
                   storage, reqs, ever_cached, url_path, url_out,
                   csv_file, csv_pc, csv_out>>

\* get_pdf resolves a row that has that URL and no supabase_path
UrlExtract ==
    /\ url_pc = "signed"
    /\ url_out' = ResolveStored(SourceRow("old", "ua", None, None, url_signed, "completed"))
    /\ url_pc' = "done"
    /\ UNCHANGED <<users, pdf_files, csv_datasets, chat_sessions, chat_messages,
                   storage, reqs, ever_cached, url_path, url_signed,
                   csv_file, csv_pc, csv_out>>

NextUrl == UrlSign \/ UrlExtract

SpecUrl == InitUrl /\ [][NextUrl]_vars

\* C9: for a row without supabase_path whose public_url is the URL the
\* bucket signed for path P, the path get_pdf extracts is P, for every P.
C9_ExtractedPathIsSignedPath ==
    url_pc = "done" => url_out = url_path

----------------------------------------------------------------------------
(* The validation of upload_csv on the files a client may send *)

Stems == { <<"data">>, << >>, <<"a", " ", "b">> }

\* the extensions that are ".csv" in some case, and the others
CsvExts == { <<".", "c", "s", "v">>, <<".", "C", "S", "V">>, <<".", "C", "s", "v">> }
OtherExts == { <<".", "t", "x", "t">>, << >>, <<"c", "s", "v">>,
               <<".", "c", "s", "v", ".", "t", "x", "t">>, <<".", "c", "s">> }

ContentTypes == allowed_types \cup {"application/pdf", "image/png", ""}

FileSizes == {0, CsvMaxBytes - 1, CsvMaxBytes, CsvMaxBytes + 1, PdfMaxBytes + 1}

InitCsv ==
    /\ users = {UserA}
    /\ pdf_files = {} /\ csv_datasets = {} /\ ever_cached = {}
    /\ chat_sessions = {} /\ chat_messages = {}
    /\ storage = << >>
    /\ reqs = << >>
    /\ url_path = None /\ url_pc = "off" /\ url_signed = None /\ url_out = None
    /\ csv_file \in [stem : Stems, ext : CsvExts \cup OtherExts,
                     content_type : ContentTypes, size : FileSizes]
    /\ csv_pc = "file" /\ csv_out = 0

\* upload_csv runs its checks on the file
CsvValidate ==
    /\ csv_pc = "file"
    /\ csv_out' = CsvValidation(csv_file.stem \o csv_file.ext,
                                csv_file.content_type, csv_file.size)
    /\ csv_pc' = "done"
    /\ UNCHANGED <<users, pdf_files, csv_datasets, chat_sessions, chat_messages,
                   storage, reqs, ever_cached, url_path, url_pc, url_signed,
                   url_out, csv_file>>

NextCsv == CsvValidate

SpecCsv == InitCsv /\ [][NextCsv]_vars

\* C5: upload_csv raises nothing exactly when the filename has a .csv
\* extension in any case and the file has at most 50MB, whatever the
\* content type is.
C5_CsvAcceptedByExtensionAndSize ==
    csv_pc = "done" =>
        (csv_out = 0 <=> (csv_file.ext \in CsvExts /\ csv_file.size <= 50 * 1024 * 1024))

C5_Witness ==
    /\ csv_pc = "done" /\ csv_out = 0
    /\ csv_file.ext = <<".", "C", "S", "V">>
    /\ csv_file.content_type = "image/png"
    /\ csv_file.size = CsvMaxBytes

====
